---- MODULE Spec2Model ----
(***************************************************************************)
(* Model of the img-host repository: the Cloudflare Worker (fetch,         *)
(* handleOptions, handleUpload, handleGet), the canonical Go backend       *)
(* (POST /upload, GET /:key) and the browser client (onDrop).              *)
(*                                                                         *)
(* Strings whose characters the code inspects (file names, content types,  *)
(* paths, keys) are sequences of one-character strings.  Wall-clock        *)
(* instants are unbounded naturals held as little-endian sequences of      *)
(* 16-bit limbs, because Date.now() and UnixNano() exceed 32 bits.         *)
(***************************************************************************)
EXTENDS Integers, Sequences, FiniteSets, TLC

VARIABLES backend, origin, store, clock, inflight, puts, putLog, seen, resp, ticks,
          imageUrl, error, isUploading, toast, pending, cresp, drops

srvVars == <<backend, origin, store, clock, inflight, puts, putLog, seen, resp, ticks>>
cliVars == <<imageUrl, error, isUploading, toast, pending, cresp, drops>>
vars == <<backend, origin, store, clock, inflight, puts, putLog, seen, resp, ticks,
          imageUrl, error, isUploading, toast, pending, cresp, drops>>

-----------------------------------------------------------------------------
(* Bounds of the exploration. *)
MaxUploads == 2
MaxTicks == 1
MaxInflight == 2
MaxDrops == 3

-----------------------------------------------------------------------------
(* Strings. *)

Max(a, b) == IF a >= b THEN a ELSE b
Min(a, b) == IF a <= b THEN a ELSE b

\* String.prototype.startsWith / strings.HasPrefix
StartsWith(s, p) == Len(s) >= Len(p) /\ SubSeq(s, 1, Len(p)) = p

\* strings.HasSuffix
HasSuffix(s, p) == Len(s) >= Len(p) /\ SubSeq(s, Len(s) - Len(p) + 1, Len(s)) = p

\* String.prototype.slice(b, e) with JavaScript's treatment of negative indices
JsSlice(s, b, e) ==
  LET from == IF b < 0 THEN Max(Len(s) + b, 0) ELSE Min(b, Len(s))
      to   == IF e < 0 THEN Max(Len(s) + e, 0) ELSE Min(e, Len(s))
  IN SubSeq(s, from + 1, to)

\* String.prototype.slice(b) and String.prototype.substring(b), b fixed by the caller
JsSliceFrom(s, b) ==
  LET from == IF b < 0 THEN Max(Len(s) + b, 0) ELSE Min(b, Len(s))
  IN SubSeq(s, from + 1, Len(s))

\* index of the first "." of s, 0 when there is none
RECURSIVE FirstDot(_, _)
FirstDot(s, i) ==
  IF i > Len(s) THEN 0
  ELSE IF s[i] = "." THEN i ELSE FirstDot(s, i + 1)

\* String.prototype.split('.')
RECURSIVE JsSplitDot(_)
JsSplitDot(s) ==
  LET i == FirstDot(s, 1)
  IN IF i = 0 THEN <<s>>
     ELSE <<SubSeq(s, 1, i - 1)>> \o JsSplitDot(SubSeq(s, i + 1, Len(s)))

\* Array.prototype.pop() of a non-empty array: its last element
JsPop(a) == a[Len(a)]

-----------------------------------------------------------------------------
(* Instants and their hexadecimal rendering. *)

LimbBase == 16 * 16 * 16 * 16
HexChars == <<"0","1","2","3","4","5","6","7","8","9","a","b","c","d","e","f">>

IsZero(t) == \A i \in 1..Len(t) : t[i] = 0

\* t + LimbBase^(i-1), with carry
RECURSIVE AddAt(_, _)
AddAt(t, i) ==
  IF i > Len(t) THEN Append(t, 1)
  ELSE IF t[i] + 1 < LimbBase THEN [t EXCEPT ![i] = @ + 1]
  ELSE AddAt([t EXCEPT ![i] = 0], i + 1)

\* t div 16 and t mod 16 on limbs
Div16(t) ==
  [i \in 1..Len(t) |->
     (t[i] \div 16) + (IF i < Len(t) THEN (t[i + 1] % 16) * (LimbBase \div 16) ELSE 0)]
Mod16(t) == t[1] % 16

\* Number.prototype.toString(16) / fmt.Sprintf("%x", n) of a natural number
RECURSIVE HexDigits(_)
HexDigits(t) ==
  IF IsZero(t) THEN << >>
  ELSE HexDigits(Div16(t)) \o <<HexChars[Mod16(t) + 1]>>
ToHex(t) == IF IsZero(t) THEN <<"0">> ELSE HexDigits(t)

-----------------------------------------------------------------------------
(* Key derivation. *)

\* Worker, handleUpload: '.' + file.name.split('.').pop()
WorkerExt(name) == <<".">> \o JsPop(JsSplitDot(name))
\* Worker, handleUpload: file.name.slice(0, -ext.length)
WorkerName(name) == JsSlice(name, 0, 0 - Len(WorkerExt(name)))
\* a suffix of nine digits instead of eight
WorkerHashNine(t) == JsSliceFrom(ToHex(t), 0 - 9)
\* Worker, handleUpload: Date.now().toString(16).slice(-8)
WorkerHash(t) == JsSliceFrom(ToHex(t), 0 - 8)
\* Worker, handleUpload: `${name}-${hash}${ext}`
WorkerFilename(name, t) ==
  WorkerName(name) \o <<"-">> \o WorkerHash(t) \o WorkerExt(name)

\* path/filepath.Ext: the suffix from the last "." of the final path element
RECURSIVE GoExtFrom(_, _)
GoExtFrom(path, i) ==
  IF i < 1 \/ path[i] = "/" THEN << >>
  ELSE IF path[i] = "." THEN SubSeq(path, i, Len(path))
  ELSE GoExtFrom(path, i - 1)
GoExt(path) == GoExtFrom(path, Len(path))
\* strings.TrimSuffix
TrimSuffix(s, suffix) ==
  IF HasSuffix(s, suffix) THEN SubSeq(s, 1, Len(s) - Len(suffix)) ELSE s
\* Go, POST /upload: fmt.Sprintf("%x", time.Now().UnixNano())[8:]
\* (a rendering shorter than 8 digits panics; no clock since 1970-01-01T00:00:04.3 gives one)
GoHash(t) == SubSeq(ToHex(t), 8 + 1, Len(ToHex(t)))
\* Go, POST /upload: fmt.Sprintf("%s-%s%s", name, hash, ext)
GoFilename(name, t) ==
  TrimSuffix(name, GoExt(name)) \o <<"-">> \o GoHash(t) \o GoExt(name)

-----------------------------------------------------------------------------
(* Requests, responses and the blob store. *)

\* the deployment a run talks to: the Worker or the Go backend, each with its own bucket
Servers == {"worker", "go"}

\* the clock reading when a run starts, in the backend's unit (Date.now() in ms,
\* UnixNano() in ns): 2024-06-10, just before the low 32 bits roll over
StartInstant(b) == IF b = "worker" THEN <<65535, 65535, 399>> ELSE <<65535, 65535, 0, 6100>>

Absent == "<absent>"
NoHeader == << >>

\* Worker: const ALLOWED_ORIGINS
ALLOWED_ORIGINS == <<"https://img.jer.ee", "http://localhost:3000">>
\* the Origin header of the page whose requests a run follows (Absent: none sent)
Origins == {"http://localhost:3000", "https://evil.example", Absent}

ImagePrefix == <<"i","m","a","g","e","/">>
ImageJ == <<"i","m","a","g","e","/","j">>
ImageP == <<"i","m","a","g","e","/","p">>
ImageNoSlash == <<"i","m","a","g","e">>
TextP == <<"t","e","x","t","/","p">>
AppJson == <<"a","p","p","/","j","s","o","n">>

\* the multipart bodies a request can carry
FileForm(n, ty, b) == [kind |-> "file", name |-> n, type |-> ty, body |-> b]
NoFileForm(k) == [kind |-> k, name |-> << >>, type |-> << >>, body |-> << >>]
ImageForms ==
  { FileForm(<<"c",".","j">>, ImageJ, <<1>>),
    FileForm(<<"c",".","j">>, ImageP, <<2>>),
    FileForm(<<"c">>, ImageP, <<1>>) }
OtherForms ==
  { FileForm(<<"c",".","j">>, TextP, <<1>>),
    FileForm(<<"c">>, ImageNoSlash, <<2>>),
    NoFileForm("unparseable"), NoFileForm("nofile"), NoFileForm("string") }
Forms == ImageForms \cup OtherForms

UploadPathW == <<"/","i","m","g","/","u","p","l","o","a","d">>
ImgPrefix == <<"/","i","m","g","/">>
UnknownKey == <<"n","o">>

EmptyStore == [k \in {} |-> 0]
Has(s, k) == k \in DOMAIN s
\* a store whose put never replaces an object that exists
StorePutKeepFirst(s, k, obj) ==
  [x \in DOMAIN s \cup {k} |-> IF x \in DOMAIN s THEN s[x] ELSE obj]
\* put(key, bytes, contentType): create or replace the object under key
StorePut(s, k, obj) == [x \in DOMAIN s \cup {k} |-> IF x = k THEN obj ELSE s[x]]

\* keys a retrieval request is tried with
GetKeys == DOMAIN store \cup {r.key : r \in inflight} \cup {UnknownKey}

EmptyBody == [kind |-> "empty", text |-> "", filename |-> << >>, bytes |-> << >>]
TextBody(t) == [kind |-> "text", text |-> t, filename |-> << >>, bytes |-> << >>]
ErrorBody(e) == [kind |-> "json", text |-> e, filename |-> << >>, bytes |-> << >>]
UploadedBody(m, f) == [kind |-> "json", text |-> m, filename |-> f, bytes |-> << >>]
BytesBody(b) == [kind |-> "bytes", text |-> "", filename |-> << >>, bytes |-> b]

NoHeaders == [acao |-> Absent, acam |-> Absent, acah |-> Absent, allow |-> Absent,
              ctype |-> NoHeader, etag |-> NoHeader]

\* one HTTP exchange: the request as received (handler, method, key, origin, form), how
\* the store call it made went (io: "none", "ok" or "fail") and the handler's answer
Response(handler, method, key, o, form, io, status, body, headers) ==
  [handler |-> handler, method |-> method, key |-> key,
   origin |-> o, form |-> form, io |-> io, thrown |-> FALSE,
   status |-> status, body |-> body, headers |-> headers]
\* the handler's promise rejected: no Response object was produced
Thrown(handler, method, key, o, form, io) ==
  [handler |-> handler, method |-> method, key |-> key,
   origin |-> o, form |-> form, io |-> io, thrown |-> TRUE,
   status |-> 0, body |-> EmptyBody, headers |-> NoHeaders]

\* resp is the answer given by the step just taken, NoResponse when it gave none
NoResponse ==
  Response("none", "none", << >>, Absent, NoFileForm("none"), "none", 0, EmptyBody,
           NoHeaders)

\* record of a completed put, kept in completion order (the spy on the store)
PutEvent(r) ==
  [id |-> r.id, key |-> r.key, name |-> r.name, t |-> r.t, body |-> r.body,
   ctype |-> r.type]

\* an earlier retrieval an observer chose to remember, with the number of puts then completed
GetNote(key, status, body, ctype) ==
  [key |-> key, status |-> status, body |-> body, ctype |-> ctype, n |-> Len(putLog)]
NoGet == [key |-> << >>, status |-> 0, body |-> << >>, ctype |-> NoHeader, n |-> 0]

-----------------------------------------------------------------------------
(* Cloudflare Worker. *)

\* getAllowedOrigin(request)
getAllowedOrigin(o) ==
  IF o # Absent /\ (\E i \in 1..Len(ALLOWED_ORIGINS) : ALLOWED_ORIGINS[i] = o)
  THEN o
  ELSE ALLOWED_ORIGINS[1]

\* fetch(request, env): which branch serves the request
WorkerRoute(method, pathname) ==
  IF method = "OPTIONS" THEN "handleOptions"
  ELSE IF method = "POST"
       THEN (IF pathname = UploadPathW THEN "handleUpload" ELSE "notFound")
  ELSE IF method = "GET" THEN "handleGet"
  ELSE "methodNotAllowed"

\* fetch: let key = url.pathname.substring(5)
WorkerKey(pathname) == JsSliceFrom(pathname, 5)

JsonCors(o) == [NoHeaders EXCEPT !.ctype = AppJson, !.acao = getAllowedOrigin(o)]

\* a type check that forgets the slash of 'image/'
WorkerCheckNoSlash(form) ==
  IF form.kind = "unparseable" THEN "throw"
  ELSE IF form.kind # "file" THEN "required"
  ELSE IF ~StartsWith(form.type, ImageNoSlash) THEN "notImage"
  ELSE "ok"
\* handleUpload up to its first return: "ok" when the upload goes on to the put
WorkerCheck(form) ==
  IF form.kind = "unparseable" THEN "throw"
  ELSE IF form.kind # "file" THEN "required"
  ELSE IF ~StartsWith(form.type, ImagePrefix) THEN "notImage"
  ELSE "ok"

\* handleOptions(request)
WorkerOptions(path, o) ==
  /\ backend = "worker"
  /\ WorkerRoute("OPTIONS", path) = "handleOptions"
  /\ resp' = Response("handleOptions", "OPTIONS", WorkerKey(path), o,
                      NoFileForm("none"), "none", 200, EmptyBody,
                      [NoHeaders EXCEPT !.acao = getAllowedOrigin(o),
                                        !.acam = "GET, POST, OPTIONS",
                                        !.acah = "Content-Type, Accept"])
  /\ UNCHANGED <<backend, origin, store, clock, inflight, puts, putLog, seen, ticks>>
  /\ UNCHANGED cliVars

\* fetch: POST to a path other than /img/upload
WorkerNotFound(path, o) ==
  /\ backend = "worker"
  /\ WorkerRoute("POST", path) = "notFound"
  /\ resp' = Response("notFound", "POST", WorkerKey(path), o,
                      NoFileForm("none"), "none", 404, TextBody("Not Found"), NoHeaders)
  /\ UNCHANGED <<backend, origin, store, clock, inflight, puts, putLog, seen, ticks>>
  /\ UNCHANGED cliVars

\* fetch: default branch of the switch
WorkerMethodNotAllowed(method, path, o) ==
  /\ backend = "worker"
  /\ WorkerRoute(method, path) = "methodNotAllowed"
  /\ resp' = Response("methodNotAllowed", method, WorkerKey(path), o,
                      NoFileForm("none"), "none", 405, TextBody("Method Not Allowed"),
                      [NoHeaders EXCEPT !.allow = "GET, POST",
                                        !.acao = getAllowedOrigin(o)])
  /\ UNCHANGED <<backend, origin, store, clock, inflight, puts, putLog, seen, ticks>>
  /\ UNCHANGED cliVars

\* handleUpload: the request is answered before any put
WorkerUploadReject(form, o) ==
  /\ backend = "worker"
  /\ WorkerRoute("POST", UploadPathW) = "handleUpload"
  /\ WorkerCheck(form) # "ok"
  /\ resp' =
       LET c == WorkerCheck(form)
       IN Response("handleUpload", "POST", WorkerKey(UploadPathW), o, form,
                   "none", IF c = "throw" THEN 500 ELSE 400,
                   ErrorBody(IF c = "throw" THEN "Failed to upload file"
                             ELSE IF c = "required" THEN "File is required"
                             ELSE "Only image files are allowed"),
                   JsonCors(o))
  /\ UNCHANGED <<backend, origin, store, clock, inflight, puts, putLog, seen, ticks>>
  /\ UNCHANGED cliVars

\* handleUpload: validation passed, the key is derived and the put is issued
WorkerUploadBegin(form, o) ==
  /\ backend = "worker"
  /\ puts < MaxUploads
  /\ Cardinality(inflight) < MaxInflight
  /\ WorkerRoute("POST", UploadPathW) = "handleUpload"
  /\ WorkerCheck(form) = "ok"
  /\ inflight' = inflight \cup
       {[id |-> puts + 1, origin |-> o, form |-> form,
         name |-> form.name, type |-> form.type, body |-> form.body,
         t |-> clock, key |-> WorkerFilename(form.name, clock)]}
  /\ puts' = puts + 1
  /\ resp' = NoResponse
  /\ UNCHANGED <<backend, origin, store, clock, putLog, seen, ticks>>
  /\ UNCHANGED cliVars

\* handleUpload: env.R2_BUCKET.put settles; ok = FALSE is a rejected promise
WorkerPutDone(r, ok) ==
  /\ backend = "worker"
  /\ r \in inflight
  /\ inflight' = inflight \ {r}
  /\ IF ok
     THEN /\ store' = StorePut(store, r.key, [body |-> r.body, ctype |-> r.type])
          /\ putLog' = Append(putLog, PutEvent(r))
          /\ resp' = Response("handleUpload", "POST", WorkerKey(UploadPathW),
                              r.origin, r.form, "ok", 200,
                              UploadedBody("Image uploaded successfully", r.key),
                              JsonCors(r.origin))
     ELSE /\ resp' = Response("handleUpload", "POST", WorkerKey(UploadPathW),
                              r.origin, r.form, "fail", 500, ErrorBody("Failed to upload file"),
                              JsonCors(r.origin))
          /\ UNCHANGED <<store, putLog>>
  /\ UNCHANGED <<backend, origin, clock, puts, seen, ticks>>
  /\ UNCHANGED cliVars

\* handleGet(request, key, env); ok = FALSE is env.R2_BUCKET.get rejecting; the etag
\* (object.httpEtag) is a digest of the content and is modelled by the content;
\* note = TRUE makes the observer remember this retrieval
WorkerGet(path, o, ok, note) ==
  /\ backend = "worker"
  /\ WorkerRoute("GET", path) = "handleGet"
  /\ LET key == WorkerKey(path)
         s == store
     IN IF ~ok
        THEN /\ resp' = Thrown("handleGet", "GET", key, o,
                               NoFileForm("none"), "fail")
             /\ seen' = seen
        ELSE IF ~Has(s, key)
        THEN /\ resp' = Response("handleGet", "GET", key, o,
                                 NoFileForm("none"), "ok", 404,
                                 TextBody("Object Not Found"),
                                 [NoHeaders EXCEPT !.acao = getAllowedOrigin(o)])
             /\ seen' = IF note THEN GetNote(key, 404, << >>, NoHeader) ELSE seen
        ELSE /\ resp' = Response("handleGet", "GET", key, o,
                                 NoFileForm("none"), "ok", 200, BytesBody(s[key].body),
                                 [NoHeaders EXCEPT !.ctype = s[key].ctype,
                                                   !.etag = s[key].body,
                                                   !.acao = getAllowedOrigin(o)])
             /\ seen' = IF note THEN GetNote(key, 200, s[key].body, s[key].ctype) ELSE seen
  /\ UNCHANGED <<backend, origin, store, clock, inflight, puts, putLog, ticks>>
  /\ UNCHANGED cliVars

-----------------------------------------------------------------------------
(* Canonical Go backend (CORS is left to the fiber middleware, not modelled). *)

JsonHeaders == [NoHeaders EXCEPT !.ctype = AppJson]

\* POST /upload up to the key derivation: "ok" when the upload goes on to the put;
\* io is the outcome of fileHeader.Open() and io.Copy
GoCheck(form, io) ==
  IF form.kind # "file" THEN "required"
  ELSE IF ~StartsWith(form.type, ImagePrefix) THEN "notImage"
  ELSE IF io = "open" THEN "open"
  ELSE IF io = "read" THEN "read"
  ELSE "ok"

\* POST /upload: the request is answered before any put
GoUploadReject(form, io) ==
  /\ backend = "go"
  /\ GoCheck(form, io) # "ok"
  /\ resp' =
       LET c == GoCheck(form, io)
       IN Response("upload", "POST", << >>, Absent, form, "none",
                   IF c \in {"required", "notImage"} THEN 400 ELSE 500,
                   ErrorBody(IF c = "required" THEN "File is required"
                             ELSE IF c = "notImage" THEN "Only image files are allowed"
                             ELSE IF c = "open" THEN "Failed to open file"
                             ELSE "Failed to read file"),
                   JsonHeaders)
  /\ UNCHANGED <<backend, origin, store, clock, inflight, puts, putLog, seen, ticks>>
  /\ UNCHANGED cliVars

\* POST /upload: the key is derived and UploadFileToR2 is called
GoUploadBegin(form) ==
  /\ backend = "go"
  /\ puts < MaxUploads
  /\ Cardinality(inflight) < MaxInflight
  /\ GoCheck(form, "ok") = "ok"
  /\ inflight' = inflight \cup
       {[id |-> puts + 1, origin |-> Absent, form |-> form,
         name |-> form.name, type |-> form.type, body |-> form.body,
         t |-> clock, key |-> GoFilename(form.name, clock)]}
  /\ puts' = puts + 1
  /\ resp' = NoResponse
  /\ UNCHANGED <<backend, origin, store, clock, putLog, seen, ticks>>
  /\ UNCHANGED cliVars

\* UploadFileToR2 returns; ok = FALSE is a non-nil error
GoPutDone(r, ok) ==
  /\ backend = "go"
  /\ r \in inflight
  /\ inflight' = inflight \ {r}
  /\ IF ok
     THEN /\ store' = StorePut(store, r.key, [body |-> r.body, ctype |-> r.type])
          /\ putLog' = Append(putLog, PutEvent(r))
          /\ resp' = Response("upload", "POST", << >>, Absent, r.form, "ok", 200,
                              UploadedBody("Image uploaded successfully", r.key),
                              JsonHeaders)
     ELSE /\ resp' = Response("upload", "POST", << >>, Absent, r.form, "fail", 500,
                              ErrorBody("Failed to upload file"), JsonHeaders)
          /\ UNCHANGED <<store, putLog>>
  /\ UNCHANGED <<backend, origin, clock, puts, seen, ticks>>
  /\ UNCHANGED cliVars

\* a retrieval that removes the object it serves
GoGetConsuming(key, ok, note) ==
  /\ backend = "go"
  /\ ok /\ Has(store, key)
  /\ resp' = Response("get", "GET", key, Absent, NoFileForm("none"), "ok", 200,
                      BytesBody(store[key].body),
                      [NoHeaders EXCEPT !.ctype = store[key].ctype])
  /\ seen' = IF note THEN GetNote(key, 200, store[key].body, store[key].ctype) ELSE seen
  /\ store' = [x \in DOMAIN store \ {key} |-> store[x]]
  /\ UNCHANGED <<backend, origin, clock, inflight, puts, putLog, ticks>>
  /\ UNCHANGED cliVars

\* GET /:key with GetFileFromR2; ok = FALSE is a store failure other than a missing key;
\* note = TRUE makes the observer remember this retrieval
GoGet(key, ok, note) ==
  /\ backend = "go"
  /\ LET s == store
         err == ~ok \/ ~Has(s, key)
     IN IF err
        THEN /\ resp' = Response("get", "GET", key, Absent,
                                 NoFileForm("none"), IF ok THEN "ok" ELSE "fail", 500,
                                 ErrorBody("Failed to retrieve file"), JsonHeaders)
             /\ seen' = IF ok /\ note THEN GetNote(key, 500, << >>, NoHeader) ELSE seen
        ELSE /\ resp' = Response("get", "GET", key, Absent,
                                 NoFileForm("none"), "ok", 200, BytesBody(s[key].body),
                                 [NoHeaders EXCEPT !.ctype = s[key].ctype])
             /\ seen' = IF note THEN GetNote(key, 200, s[key].body, s[key].ctype) ELSE seen
  /\ UNCHANGED <<backend, origin, store, clock, inflight, puts, putLog, ticks>>
  /\ UNCHANGED cliVars

\* the wall clock advances by one unit (i = 1) or by 2^32 units (i = 3)
Tick(i) ==
  /\ ticks < MaxTicks
  /\ ticks' = ticks + 1
  /\ clock' = AddAt(clock, i)
  /\ resp' = NoResponse
  /\ UNCHANGED <<backend, origin, store, inflight, puts, putLog, seen>>
  /\ UNCHANGED cliVars

-----------------------------------------------------------------------------
(* Browser client. *)

\* import.meta.env.VITE_API_URL
ApiUrl == <<"A">>
FailedMessage == "Failed to upload image. Please try again."
Undefined == <<"u","n","d","e","f","i","n","e","d">>

\* what fetch() settles with: a response of one of the backends, or a rejection
Json(status, message, hasFilename, filename) ==
  [kind |-> "json", status |-> status, message |-> message,
   hasFilename |-> hasFilename, filename |-> filename]
ClientKeys == { WorkerFilename(<<"c",".","j">>, <<65535,65535,399>>),
                GoFilename(<<"c">>, <<65535,65535,0,6100>>) }
ClientResponses ==
  { Json(200, "Image uploaded successfully", TRUE, k) : k \in ClientKeys }
  \cup { Json(200, "File uploaded successfully", FALSE, << >>),
         Json(400, "", FALSE, << >>),
         Json(500, "", FALSE, << >>),
         [kind |-> "text", status |-> 404, message |-> "", hasFilename |-> FALSE,
          filename |-> << >>],
         [kind |-> "neterr", status |-> 0, message |-> "", hasFilename |-> FALSE,
          filename |-> << >>] }
NoClientResponse ==
  [kind |-> "none", status |-> 0, message |-> "", hasFilename |-> FALSE, filename |-> << >>]

\* a client that takes every status below 500 for a success
ResponseOkBelow500(r) == r.status >= 200 /\ r.status <= 499
\* Response.ok
ResponseOk(r) == r.status >= 200 /\ r.status <= 299
\* `${data.filename}`
TemplateString(r) == IF r.hasFilename THEN r.filename ELSE Undefined

NoToast == [kind |-> "none", text |-> ""]

\* onDrop up to the await of fetch; useDropzone is disabled while isUploading
ClientDrop(acceptedFiles) ==
  /\ drops < MaxDrops
  /\ ~isUploading
  /\ drops' = drops + 1
  /\ IF Len(acceptedFiles) > 0
     THEN /\ isUploading' = TRUE
          /\ error' = ""
          /\ pending' = pending \cup {[id |-> drops + 1, file |-> acceptedFiles[1]]}
     ELSE UNCHANGED <<isUploading, error, pending>>
  /\ UNCHANGED <<imageUrl, toast, cresp>>
  /\ UNCHANGED srvVars

\* an onDrop whose setIsUploading(false) ends the try block instead of sitting in finally
ClientSettleNoFinally(p, r) ==
  /\ p \in pending
  /\ pending' = pending \ {p}
  /\ cresp' = r
  /\ IF r.kind # "neterr" /\ ResponseOk(r)
     THEN /\ imageUrl' = ApiUrl \o <<"/">> \o TemplateString(r)
          /\ toast' = [kind |-> "success", text |-> r.message]
          /\ error' = error
          /\ isUploading' = FALSE
     ELSE /\ error' = FailedMessage
          /\ toast' = [kind |-> "error", text |-> "Upload failed"]
          /\ imageUrl' = imageUrl
          /\ isUploading' = isUploading
  /\ UNCHANGED drops
  /\ UNCHANGED srvVars

\* onDrop from the settling of fetch to the end of the finally block
ClientSettle(p, r) ==
  /\ p \in pending
  /\ pending' = pending \ {p}
  /\ cresp' = r
  /\ IF r.kind # "neterr" /\ ResponseOk(r)
     THEN /\ imageUrl' = ApiUrl \o <<"/">> \o TemplateString(r)
          /\ toast' = [kind |-> "success", text |-> r.message]
          /\ error' = error
     ELSE /\ error' = FailedMessage
          /\ toast' = [kind |-> "error", text |-> "Upload failed"]
          /\ imageUrl' = imageUrl
  /\ isUploading' = FALSE
  /\ UNCHANGED drops
  /\ UNCHANGED srvVars

-----------------------------------------------------------------------------
(* Specifications. *)

Init ==
  /\ backend \in Servers
  /\ origin \in (IF backend = "worker" THEN Origins ELSE {Absent})
  /\ store = EmptyStore
  /\ clock = StartInstant(backend)
  /\ inflight = {}
  /\ puts = 0
  /\ putLog = << >>
  /\ seen = NoGet
  /\ resp = NoResponse
  /\ ticks = 0
  /\ imageUrl = << >>
  /\ error = ""
  /\ isUploading = FALSE
  /\ toast = NoToast
  /\ pending = {}
  /\ cresp = NoClientResponse
  /\ drops = 0

WorkerPaths == {UploadPathW, ImgPrefix \o UnknownKey}

Next ==
  \/ \E p \in WorkerPaths, o \in {origin} : WorkerOptions(p, o)
  \/ \E p \in WorkerPaths, o \in {origin} : WorkerNotFound(p, o)
  \/ \E m \in {"DELETE"}, p \in WorkerPaths, o \in {origin} :
        WorkerMethodNotAllowed(m, p, o)
  \/ \E f \in Forms, o \in {origin} : WorkerUploadReject(f, o)
  \/ \E f \in Forms, o \in {origin} : WorkerUploadBegin(f, o)
  \/ \E r \in inflight, ok \in BOOLEAN : WorkerPutDone(r, ok)
  \/ \E k \in GetKeys, o \in {origin}, ok \in BOOLEAN, note \in BOOLEAN :
        WorkerGet(ImgPrefix \o k, o, ok, note)
  \/ \E f \in Forms, io \in {"ok", "open", "read"} : GoUploadReject(f, io)
  \/ \E f \in Forms : GoUploadBegin(f)
  \/ \E r \in inflight, ok \in BOOLEAN : GoPutDone(r, ok)
  \/ \E k \in GetKeys, ok \in BOOLEAN, note \in BOOLEAN : GoGet(k, ok, note)
  \/ \E i \in {1, 3} : Tick(i)

Spec == Init /\ [][Next]_vars

ClientFiles == {<<"c.j">>, <<"c">>}

NextClient ==
  \/ \E a \in {<< >>} \cup {<<f>> : f \in ClientFiles} : ClientDrop(a)
  \/ \E p \in pending, r \in ClientResponses : ClientSettle(p, r)

SpecClient == Init /\ [][NextClient]_vars

\* the promise returned by fetch settles: it resolves with a response or rejects
FetchSettles == \E p \in pending, r \in ClientResponses : ClientSettle(p, r)

SpecClientFair == Init /\ [][NextClient]_vars /\ WF_vars(FetchSettles)

-----------------------------------------------------------------------------
(* Vocabulary of the properties. *)

\* the answer of the step just taken comes from an upload handler / a retrieval handler
IsUpload(r) == r.handler \in {"handleUpload", "upload"}
IsGet(r) == r.handler \in {"handleGet", "get"}

\* the file part of the request declares a content type that is not an image type
DeclaresNonImage(form) ==
  /\ form.kind = "file"
  /\ \/ Len(form.type) < Len(ImagePrefix)
     \/ \E i \in 1..Len(ImagePrefix) : form.type[i] # ImagePrefix[i]

\* hexadecimal digit k of instant t, k = 0 for the lowest
RECURSIVE Pow16(_)
Pow16(n) == IF n = 0 THEN 1 ELSE 16 * Pow16(n - 1)
DigitAt(t, k) ==
  IF (k \div 4) + 1 > Len(t) THEN 0 ELSE (t[(k \div 4) + 1] \div Pow16(k % 4)) % 16
\* the low-order 8 hexadecimal digits of t, highest first
Low8(t) == [i \in 1..8 |-> HexChars[DigitAt(t, 8 - i) + 1]]

\* position of the last "." of f, 0 when f has none
LastDot(f) ==
  IF \E i \in 1..Len(f) : f[i] = "."
  THEN CHOOSE i \in 1..Len(f) : f[i] = "." /\ \A j \in (i + 1)..Len(f) : f[j] # "."
  ELSE 0
RefExt(f) == IF LastDot(f) = 0 THEN << >> ELSE SubSeq(f, LastDot(f), Len(f))
RefBase(f) == SubSeq(f, 1, Len(f) - Len(RefExt(f)))
RefKey(f, t) == RefBase(f) \o <<"-">> \o Low8(t) \o RefExt(f)

\* index in putLog of the put that completed last under key k, 0 when there is none
LastPut(k) ==
  IF \E i \in DOMAIN putLog : putLog[i].key = k
  THEN CHOOSE i \in DOMAIN putLog :
         putLog[i].key = k /\ \A j \in (i + 1)..Len(putLog) : putLog[j].key # k
  ELSE 0

-----------------------------------------------------------------------------
(* C1 *)

\* what an accepted upload answers: a non-empty filename, under which the store now
\* holds the uploaded payload
UploadAnswer ==
  (IsUpload(resp') /\ resp'.status = 200) =>
     /\ resp'.body.filename # << >>
     /\ Has(store', resp'.body.filename)
     /\ store'[resp'.body.filename].body = resp'.form.body
     /\ putLog' = Append(putLog, putLog'[Len(putLog')])
     /\ putLog'[Len(putLog')].key = resp'.body.filename
     /\ putLog'[Len(putLog')].body = resp'.form.body

\* C1 as stated: an accepted upload answers a non-empty filename, and every later
\* retrieval with that filename as its key returns exactly the uploaded payload,
\* whatever was uploaded or retrieved in between.
C1_RoundTripAlways ==
  [][ /\ UploadAnswer
      /\ (IsGet(resp') /\ resp'.io = "ok") =>
           \A i \in DOMAIN putLog :
             putLog[i].key = resp'.key =>
               /\ resp'.status = 200
               /\ resp'.body.bytes = putLog[i].body ]_vars

\* C1 amended: an accepted upload answers a non-empty filename, and every later
\* retrieval with that filename as its key (whose store read succeeds) returns 200 and
\* the payload of the accepted upload that completed its put last under that key: the
\* uploaded payload itself unless another upload deriving the same key completed since.
C1_RoundTripLast ==
  [][ /\ UploadAnswer
      /\ (IsGet(resp') /\ resp'.io = "ok") =>
           \A i \in DOMAIN putLog :
             putLog[i].key = resp'.key =>
               /\ resp'.status = 200
               /\ resp'.body.kind = "bytes"
               /\ (i = LastPut(resp'.key) => resp'.body.bytes = putLog[i].body) ]_vars

\* a retrieval returned the payload of an upload after a second upload was accepted
\* under another key
C1_Witness ==
  /\ IsGet(resp) /\ resp.status = 200
  /\ Len(putLog) = 2
  /\ putLog[1].key = resp.key
  /\ putLog[2].key # resp.key
  /\ resp.body.bytes = putLog[1].body

-----------------------------------------------------------------------------
(* C2 *)

\* C2: an upload whose file part declares a content type not starting with "image/" is
\* answered 400 {error: "Only image files are allowed"}, and the request makes no put:
\* the put count, the puts in flight and the store are what they were before it.
C2_NonImageRejected ==
  [][ (IsUpload(resp') /\ DeclaresNonImage(resp'.form)) =>
        /\ ~resp'.thrown
        /\ resp'.status = 400
        /\ resp'.body = ErrorBody("Only image files are allowed")
        /\ puts' = puts
        /\ inflight' = inflight
        /\ putLog' = putLog
        /\ store' = store ]_vars

\* a non-image upload was rejected while the store held an object
C2_Witness ==
  /\ IsUpload(resp) /\ DeclaresNonImage(resp.form)
  /\ resp.status = 400
  /\ DOMAIN store # {}
  /\ puts > 0

-----------------------------------------------------------------------------
(* C3 *)

\* C3 as stated: a retrieval whose key the store does not hold is answered 404, with a
\* body that carries no object bytes.
C3_UnknownKey404 ==
  (IsGet(resp) /\ resp.io = "ok" /\ ~Has(store, resp.key)) =>
     /\ ~resp.thrown
     /\ resp.status = 404
     /\ resp.body.kind # "bytes"
     /\ resp.body.bytes = << >>

-----------------------------------------------------------------------------
(* C4 *)

\* C4 as stated: an upload without a file part named "file" (no such field, a field
\* that is not a file, or a body that cannot be read) is answered 400
\* {error: "File is required"} and makes no put.
C4_FileRequired ==
  [][ (IsUpload(resp') /\ resp'.form.kind # "file") =>
        /\ ~resp'.thrown
        /\ resp'.status = 400
        /\ resp'.body = ErrorBody("File is required")
        /\ puts' = puts
        /\ inflight' = inflight
        /\ store' = store ]_vars

-----------------------------------------------------------------------------
(* C5 *)

\* C5 as stated: the key of every accepted upload of a file named f at instant t is
\* base-suffix-ext with ext the part of f from its last "." (empty without a "."), base
\* the rest of f and suffix the low-order 8 hex digits of t; it is the key written to the
\* store and the filename answered.
C5_KeyDerivation ==
  /\ \A i \in DOMAIN putLog :
       /\ putLog[i].key = RefKey(putLog[i].name, putLog[i].t)
       /\ Has(store, putLog[i].key)
  /\ (IsUpload(resp) /\ resp.status = 200) =>
       resp.body.filename = RefKey(resp.form.name, putLog[Len(putLog)].t)

-----------------------------------------------------------------------------
(* C6 *)

C6_Pairs ==
  \A i, j \in DOMAIN putLog :
    (i < j /\ putLog[i].name = putLog[j].name) =>
      IF Low8(putLog[i].t) # Low8(putLog[j].t)
      THEN /\ putLog[i].key # putLog[j].key
           /\ Has(store, putLog[i].key)
           /\ Has(store, putLog[j].key)
      ELSE /\ putLog[i].key = putLog[j].key
           /\ Has(store, putLog[j].key)
           /\ store[putLog[j].key].body = putLog[LastPut(putLog[j].key)].body
           /\ store[putLog[j].key].ctype = putLog[LastPut(putLog[j].key)].ctype

C6_Silent ==
  (putLog' # putLog) =>
     /\ ~resp'.thrown
     /\ resp'.status = 200
     /\ resp'.body = UploadedBody("Image uploaded successfully", putLog'[Len(putLog')].key)

\* C6: two accepted uploads of one filename derive different keys, both present in the
\* store, when their instants differ in the low-order 8 hex digits; they derive the same
\* key when those digits agree, each is answered a plain 200, and the store then holds
\* under that key the payload of the put that completed last.
C6_Collision == []C6_Pairs /\ [][C6_Silent]_vars

\* two uploads of one filename collided, and the request that derived its key second
\* completed its put first
C6_Witness ==
  /\ Len(putLog) = 2
  /\ putLog[1].name = putLog[2].name
  /\ Low8(putLog[1].t) = Low8(putLog[2].t)
  /\ putLog[1].id > putLog[2].id
  /\ putLog[1].body # putLog[2].body
  /\ store[putLog[2].key].body = putLog[2].body

-----------------------------------------------------------------------------
(* C7 *)

\* C7 as stated: every response of the Worker carries Access-Control-Allow-Origin, the
\* request's Origin when allow-listed and the first allow-list entry otherwise; the
\* answer to OPTIONS has no body and names the allowed methods and headers.
C7_CorsEverywhere ==
  (backend = "worker" /\ resp # NoResponse /\ ~resp.thrown) =>
     /\ resp.headers.acao =
          (IF resp.origin \in {ALLOWED_ORIGINS[i] : i \in 1..Len(ALLOWED_ORIGINS)}
           THEN resp.origin ELSE ALLOWED_ORIGINS[1])
     /\ resp.method = "OPTIONS" =>
          /\ resp.body = EmptyBody
          /\ resp.headers.acam = "GET, POST, OPTIONS"
          /\ resp.headers.acah = "Content-Type, Accept"

-----------------------------------------------------------------------------
(* C8 *)

\* C8 as stated: when the store call of an upload or of a retrieval fails, the handler
\* answers 500 (an upload: {error: "Failed to upload file"}) and nothing is thrown out of
\* it; the failed put is not issued again and changes nothing in the store.
C8_StoreFailureContained ==
  [][ (resp'.io = "fail") =>
        /\ ~resp'.thrown
        /\ resp'.status = 500
        /\ IsUpload(resp') => resp'.body = ErrorBody("Failed to upload file")
        /\ puts' = puts
        /\ Cardinality(inflight') <= Cardinality(inflight)
        /\ store' = store ]_vars

-----------------------------------------------------------------------------
(* C9 *)

\* C9 as stated: a retrieval returns the same bytes and the same Content-Type as any
\* earlier retrieval of that key that returned the object, at whatever points of the run
\* the two happen; and a retrieval leaves the store as it was.
C9_SameAlways ==
  [][ IsGet(resp') =>
        /\ store' = store
        /\ (resp'.io = "ok" /\ seen.status = 200 /\ seen.key = resp'.key) =>
             /\ resp'.status = 200
             /\ resp'.body.bytes = seen.body
             /\ resp'.headers.ctype = seen.ctype ]_vars

\* C9 amended: a retrieval (whose store read succeeds) returns the same bytes and the
\* same Content-Type as an earlier retrieval of that key that returned the object,
\* provided no accepted upload deriving that key completed its put between the two; and
\* a retrieval leaves the store as it was.
C9_SameUnlessOverwritten ==
  [][ IsGet(resp') =>
        /\ store' = store
        /\ putLog' = putLog
        /\ ( /\ resp'.io = "ok" /\ seen.status = 200 /\ seen.key = resp'.key
             /\ \A i \in (seen.n + 1)..Len(putLog) : putLog[i].key # seen.key ) =>
             /\ resp'.status = 200
             /\ resp'.body.bytes = seen.body
             /\ resp'.headers.ctype = seen.ctype ]_vars

\* a retrieval was repeated after another upload completed, and returned the same object
C9_Witness ==
  /\ IsGet(resp) /\ resp.status = 200
  /\ seen.status = 200 /\ seen.key = resp.key
  /\ seen.n < Len(putLog)
  /\ resp.body.bytes = seen.body
  /\ resp.headers.ctype = seen.ctype

-----------------------------------------------------------------------------
(* C10 *)

\* the step settles an upload the client had in flight
Settles == pending' # pending /\ pending' \subseteq pending

-----------------------------------------------------------------------------
(* C11 *)

\* isUploading is true exactly while an upload is in flight, and there is at most one
C11_InFlight ==
  /\ isUploading <=> pending # {}
  /\ Cardinality(pending) <= 1

\* a drop that carries a file starts exactly one upload; a settling of any kind ends it
C11_Step ==
  /\ drops' # drops /\ pending' # pending =>
        ~isUploading /\ isUploading' /\ Cardinality(pending') = 1
  /\ Settles => isUploading /\ ~isUploading' /\ pending' = {}

====
